---- MODULE Spec2Model ----
(***************************************************************************)
(* Model of the Bamboo exporter's collector (collector/collector.go):      *)
(* Exporter.Collect, scrapeMetrics, scrapeAgents, scrapeQueue,             *)
(* scrapeBuildResults, doRequest and parseProjectAndName.                  *)
(*                                                                         *)
(* Goroutines calling Collect are the processes.  A process blocks at      *)
(* mutex.Lock, at every HTTP fetch and at the final send of the samples,   *)
(* so each action below is the code that runs between two such points.     *)
(***************************************************************************)
EXTENDS Integers, Sequences, FiniteSets, TLC

\* ------------------------------------------------------------------ bounds

\* Number of goroutines that may call Collect concurrently.
NumCallers == 2
\* Total number of Collect calls explored.
MaxScrapes == 2
\* Most pieces (a character or a separator) of a plan name given to
\* parseProjectAndName.
MaxPieces == 5
\* Total number of Describe calls explored.
MaxDescribes == 2

Callers == 1 .. NumCallers

\* ------------------------------------------------- upstream (environment)

\* Agents of the Bamboo server (BambooAgent).
A1 == [id |-> 1,  name |-> "a1", type |-> "LOCAL",  active |-> TRUE,  busy |-> TRUE,  enabled |-> TRUE]
A2 == [id |-> 2,  name |-> "a2", type |-> "REMOTE", active |-> TRUE,  busy |-> FALSE, enabled |-> TRUE]
A3 == [id |-> 12, name |-> "a3", type |-> "REMOTE", active |-> FALSE, busy |-> TRUE,  enabled |-> FALSE]
A4 == [id |-> 4,  name |-> "a4", type |-> "REMOTE", active |-> TRUE,  busy |-> FALSE, enabled |-> TRUE]
A5 == [id |-> 5,  name |-> "a5", type |-> "REMOTE", active |-> TRUE,  busy |-> FALSE, enabled |-> FALSE]

\* Plan names, as sequences of characters.
PlanA == <<"P", " ", "-", " ", "x">>
PlanB == <<"n", "o", "s", "e", "p">>

\* The server's build results, newest first: the record at index i.
BuildAt(i) ==
    [ plan        |-> IF i % 3 = 0 THEN PlanB ELSE PlanA,
      buildNumber |-> 400 - i,
      state       |-> IF i % 2 = 0 THEN "Successful" ELSE "Failed" ]

\* A state of the Bamboo server as the fetches of one scrape see it: the
\* decoded agent list, the queue size, the number of build results it holds
\* (total), the results.size it reports (reported) and the most records it
\* puts on one page (limit).  The server gains `growth` results for every
\* result already served (growth 0: the results do not change during the
\* scrape), and reports and serves them from then on.
Server(list, q, total, reported, limit) ==
    [agents |-> list, queue |-> q, total |-> total, reported |-> reported,
     limit |-> limit, growth |-> 0]

\* The server that gains g results for every result served.
Growing(server, g) == [server EXCEPT !.growth = g]

\* The server states explored by Spec.
Upstreams ==
    { Server(<<A1, A2, A4, A5>>, 5, 2,   2,   1),
      Server(<<A1, A1>>,         3, 150, 150, 100),
      Server(<<A3>>,             0, 0,   0,   100),
      Server(<<>>,               3, 1,   1,   100),
      Server(<<A1, A3>>,         5, 3,   3,   2),
      Server(<<A2>>,             0, 1,   1,   100) }

\* A server that reports the number of results it holds, holds the same
\* results for the whole scrape, and serves as many as are asked for.
Honest(server) ==
    /\ server.reported = server.total
    /\ server.growth = 0
    /\ server.limit >= 100

\* The server states explored by SpecPages: servers that differ in their
\* build results only, honest ones with totals around the page size, and
\* ones whose reported size is not what they serve.
PagedUpstreams ==
    { Server(<<A2>>, 3, 0,   0,   100),
      Server(<<A2>>, 3, 100, 100, 100),
      Server(<<A2>>, 3, 101, 101, 100),
      Server(<<A2>>, 3, 150, 150, 100),
      Server(<<A2>>, 3, 200, 200, 100),
      Server(<<A2>>, 3, 2,   0,   100),
      Server(<<A2>>, 3, 2,   5,   100),
      Growing(Server(<<A2>>, 3, 3, 3, 1), 1),
      Growing(Server(<<A2>>, 3, 4, 4, 2), -1) }

\* The server states explored by SpecDescribe and SpecFair.
FewUpstreams ==
    { Server(<<A1, A2>>, 5, 2, 2, 1),
      Server(<<>>,       0, 0, 0, 100) }

\* ----------------------------------------------------------- conversions

Digit(d) == CASE d = 0 -> "0" [] d = 1 -> "1" [] d = 2 -> "2" [] d = 3 -> "3"
              [] d = 4 -> "4" [] d = 5 -> "5" [] d = 6 -> "6" [] d = 7 -> "7"
              [] d = 8 -> "8" [] d = 9 -> "9"

RECURSIVE FormatNat(_)
FormatNat(n) == IF n < 10 THEN Digit(n) ELSE FormatNat(n \div 10) \o Digit(n % 10)

\* strconv.FormatInt(n, 10)
FormatInt(n) == IF n < 0 THEN "-" \o FormatNat(-n) ELSE FormatNat(n)

\* fmt.Sprintf("%t", b)
FormatBool(b) == IF b THEN "true" ELSE "false"

RECURSIVE GCD(_, _)
GCD(a, b) == IF b = 0 THEN a ELSE GCD(b, a % b)

\* float64(b) / float64(a) for a > 0, b >= 0: the quotient as a fraction in
\* lowest terms (equal fractions are the same float64, distinct ones of
\* this size are distinct float64 values).
Quotient(b, a) == [num |-> b \div GCD(b, a), den |-> a \div GCD(b, a)]

\* The value of a freshly created gauge or counter.
Zero == [num |-> 0, den |-> 1]

\* ------------------------------------------------------------ label parsing

\* unicode.IsSpace, on the characters that occur in the plan names explored.
IsSpace(ch) == ch \in {" ", "\t", "\n", "\r", "\f"}

RECURSIVE TrimLeft(_)
TrimLeft(s) == IF s # <<>> /\ IsSpace(Head(s)) THEN TrimLeft(Tail(s)) ELSE s

RECURSIVE TrimRight(_)
TrimRight(s) ==
    IF s # <<>> /\ IsSpace(s[Len(s)]) THEN TrimRight(SubSeq(s, 1, Len(s) - 1)) ELSE s

\* strings.TrimSpace
TrimSpace(s) == TrimRight(TrimLeft(s))

Separator == <<" ", "-", " ">>

\* Positions at which the separator occurs in s.
SepPositions(s) ==
    { i \in 1 .. Len(s) - Len(Separator) + 1 :
        SubSeq(s, i, i + Len(Separator) - 1) = Separator }

Min(S) == CHOOSE m \in S : \A k \in S : m <= k

\* A split at the last occurrence of the separator.
SplitAtLast(s) ==
    IF SepPositions(s) = {} THEN <<s>>
    ELSE LET i == CHOOSE m \in SepPositions(s) : \A k \in SepPositions(s) : m >= k
         IN  << SubSeq(s, 1, i - 1), SubSeq(s, i + Len(Separator), Len(s)) >>

\* strings.SplitN(s, " - ", 2)
SplitN2(s) ==
    IF SepPositions(s) = {} THEN <<s>>
    ELSE LET i == Min(SepPositions(s))
         IN  << SubSeq(s, 1, i - 1), SubSeq(s, i + Len(Separator), Len(s)) >>

Unknown == <<"U", "n", "k", "n", "o", "w", "n">>

\* parseProjectAndName: the label pair <<project, name>>
parseProjectAndName(planName) ==
    LET parts == SplitN2(planName)
    IN  IF Len(parts) >= 2
        THEN << TrimSpace(parts[1]), TrimSpace(parts[2]) >>
        ELSE << Unknown, TrimSpace(planName) >>

\* The pieces plan names are put together from, and the plan names explored
\* by SpecLabels: up to MaxPieces pieces, one after the other.
Pieces == { <<"a">>, <<" ">>, <<"-">>, <<"\t">>, Separator }

RECURSIVE Concat(_)
Concat(ps) == IF ps = <<>> THEN <<>> ELSE Head(ps) \o Concat(Tail(ps))

PlanNames == { Concat(ps) : ps \in UNION { [1 .. n -> Pieces] : n \in 0 .. MaxPieces } }

\* ------------------------------------------------------------------ state

VARIABLES
    mutex,              \* e.mutex: 0 when unlocked, else the caller that locked it
    pc,                 \* per caller: where it is in Collect
    success,            \* per caller: the local `success` of Collect
    currentIndex,       \* per caller: local of scrapeBuildResults
    totalSize,          \* per caller: local of scrapeBuildResults
    failures,           \* e.failures
    agents,             \* e.agents: label tuple -> value
    queue,              \* e.queue
    utilization,        \* e.utilization
    queueChange,        \* e.queueChange
    previousQueueSize,  \* e.previousQueueSize
    buildSuccess,       \* e.buildSuccess: label pair -> count
    buildFailure,       \* e.buildFailure: label pair -> count
    buildCount,         \* e.buildCount: label pair -> value
    ch,                 \* the samples the last returned Collect sent on ch
    bamboo,             \* the server state the scrape in progress meets
    scrapes,            \* history: number of Collect calls made so far
    trace,              \* history: the fetches of the call in progress
    begin,              \* history: the collector state when the call in progress began
    lastAgents,         \* history: the agent list of the last successful agent step
    agentsBy,           \* history: number of the call that last wrote e.agents
    current,            \* history: number of the call in progress
    upZero,             \* history: number of calls that sent up = 0
    upOne,              \* history: number of calls that sent up = 1
    observed,           \* history: the sizes the successful queue steps observed
    ticket,             \* history, per caller: the place of its call in progress in
                        \* the order in which the calls got the mutex (0: no call)
    queueBy,            \* history: the place in that order of the call that last
                        \* stored previousQueueSize (0: none did)
    described,          \* per Describe call so far: the descriptors it sent on its
                        \* channel, and (history) whether the mutex was locked then
    planName,           \* the argument of a call of parseProjectAndName
    parsed              \* what that call returned (<<>> before it returns)

locals == <<pc, success, currentIndex, totalSize>>
metrics == <<agents, queue, utilization, queueChange, previousQueueSize,
             buildSuccess, buildFailure, buildCount>>
history == <<scrapes, trace, begin, lastAgents, agentsBy, current, upZero, upOne,
             observed, ticket, queueBy>>
calls == <<described, planName, parsed>>
vars == <<mutex, locals, failures, metrics, ch, bamboo, history, calls>>

\* The collector state a scrape may write, as one value.
State ==
    [ agents |-> agents, queue |-> queue, utilization |-> utilization,
      queueChange |-> queueChange, previousQueueSize |-> previousQueueSize,
      buildSuccess |-> buildSuccess, buildFailure |-> buildFailure,
      buildCount |-> buildCount, failures |-> failures ]

EmptyVec == [k \in {} |-> 0]

\* The positions at which a caller holds the lock.
InScrape == {"agents", "queue", "results", "emit"}

\* NewExporter
NewExporter ==
    /\ mutex = 0
    /\ pc = [c \in Callers |-> "idle"]
    /\ success = [c \in Callers |-> 0]
    /\ currentIndex = [c \in Callers |-> 0]
    /\ totalSize = [c \in Callers |-> 0]
    /\ failures = 0
    /\ agents = EmptyVec
    /\ queue = 0
    /\ utilization = Zero
    /\ queueChange = 0
    /\ previousQueueSize = 0
    /\ buildSuccess = EmptyVec
    /\ buildFailure = EmptyVec
    /\ buildCount = EmptyVec
    /\ ch = <<>>
    /\ bamboo = Server(<<>>, 0, 0, 0, 0)
    /\ scrapes = 0
    /\ trace = <<>>
    /\ begin = State
    /\ lastAgents = <<>>
    /\ agentsBy = 0
    /\ current = 0
    /\ upZero = 0
    /\ upOne = 0
    /\ observed = <<>>
    /\ ticket = [c \in Callers |-> 0]
    /\ queueBy = 0
    /\ described = <<>>

\* The exporter after construction; no plan name is being parsed.
Init ==
    /\ NewExporter
    /\ planName = <<>>
    /\ parsed = <<>>

\* -------------------------------------------------------------- doRequest

\* What a fetch meets: the credential file, the connection, the HTTP status.
Environments ==
    { [config |-> cf, conn |-> cn, status |-> st] :
        cf \in {"ok", "unreadable", "malformed"},
        cn \in {"ok", "refused", "reset"},
        st \in {200, 503} }

StatusOK == 200

\* One run of doRequest: the error it returns ("" for none), the number of
\* times it read config.json, whether the request went out to the upstream,
\* and whether it returns the response body.
Returned(err, reads, sent, body) ==
    [err |-> err, reads |-> reads, sent |-> sent, body |-> body]

\* doRequest that sends the request before it reads the credentials.
doRequestSendingFirst(env) ==
    IF env.config = "unreadable" THEN Returned("reading config file", 1, TRUE, FALSE)
    ELSE IF env.config = "malformed" THEN Returned("unmarshaling config file", 1, TRUE, FALSE)
    ELSE IF env.conn = "refused" THEN Returned("performing request", 1, TRUE, FALSE)
    ELSE IF env.status # StatusOK THEN Returned("unexpected status code", 1, TRUE, FALSE)
    ELSE IF env.conn = "reset" THEN Returned("reading body", 1, TRUE, FALSE)
    ELSE Returned("", 1, TRUE, TRUE)

\* doRequest
doRequest(env) ==
    IF env.config = "unreadable" THEN Returned("reading config file", 1, FALSE, FALSE)
    ELSE IF env.config = "malformed" THEN Returned("unmarshaling config file", 1, FALSE, FALSE)
    ELSE IF env.conn = "refused" THEN Returned("performing request", 1, TRUE, FALSE)
    ELSE IF env.status # StatusOK THEN Returned("unexpected status code", 1, TRUE, FALSE)
    ELSE IF env.conn = "reset" THEN Returned("reading body", 1, TRUE, FALSE)
    ELSE Returned("", 1, TRUE, TRUE)

\* The errors a step can return: those of doRequest, and json.Unmarshal's
\* on a body that does not decode.
FailingEnvironments == { env \in Environments : doRequest(env).err # "" }
ServingEnvironments == Environments \ FailingEnvironments
StepErrors == { doRequest(env).err : env \in FailingEnvironments } \cup {"unmarshaling"}

\* The max-result of every request of scrapeBuildResults.
maxResult == 100

\* json.Unmarshal fails on the body that the run r of doRequest returned.
Undecodable(r) == [r EXCEPT !.err = "unmarshaling"]

\* One fetch of the call in progress, as recorded in the history: the
\* endpoint, the start-index and max-result asked for, the run r of
\* doRequest (out: the error the step returns), and the size and the number
\* of records decoded from the body.
Fetch(ep, start, r, size, n) ==
    [ep |-> ep, start |-> start, most |-> IF ep = "result" THEN maxResult ELSE 0,
     out |-> r.err, reads |-> r.reads, sent |-> r.sent, body |-> r.body,
     size |-> size, n |-> n]

\* ----------------------------------------------------------- metric vectors

\* vec.WithLabelValues(k...).Set(v)
SetValue(vec, k, v) == (k :> v) @@ vec

\* vec.WithLabelValues(k...).Inc()
IncValue(vec, k) == (k :> ((IF k \in DOMAIN vec THEN vec[k] ELSE 0) + 1)) @@ vec

\* The label values of one agent's sample.
AgentLabels(agent) ==
    << FormatInt(agent.id), agent.name, agent.type,
       FormatBool(agent.enabled), FormatBool(agent.active), FormatBool(agent.busy) >>

\* The loop of scrapeAgents over the decoded list, on the vector vec.
RECURSIVE SetAgents(_, _)
SetAgents(vec, list) ==
    IF list = <<>> THEN vec
    ELSE SetAgents(SetValue(vec, AgentLabels(Head(list)), 1), Tail(list))

\* The loop without the Reset before it.
AgentsAfterWithoutReset(old, list) == SetAgents(old, list)

\* e.agents after scrapeAgents: Reset, then the loop.
AgentsAfter(old, list) == SetAgents(EmptyVec, list)

activeCount(list) == Cardinality({ i \in 1 .. Len(list) : list[i].active })
busyCount(list) == Cardinality({ i \in 1 .. Len(list) : list[i].busy })

\* The gauge set to 0 when no agent is active.
UtilizationZeroWithoutActive(old, list) ==
    IF activeCount(list) > 0
    THEN Quotient(busyCount(list), activeCount(list))
    ELSE Zero

\* e.utilization after scrapeAgents.
UtilizationAfter(old, list) ==
    IF activeCount(list) > 0
    THEN Quotient(busyCount(list), activeCount(list))
    ELSE old

\* scrapeQueue that stores the size it observed before it computes the change.
QueueAfterStoringFirst(previous, s) ==
    [queue |-> s, queueChange |-> s - s, previousQueueSize |-> s]

\* scrapeQueue that does not store the size it observed.
QueueAfterWithoutStore(previous, s) ==
    [queue |-> s, queueChange |-> s - previous, previousQueueSize |-> previous]

\* scrapeQueue on a decoded queue of size s: the queue gauge, the
\* queue-change gauge and previousQueueSize.  The sizes explored are
\* far from the ends of int64 and of float64's exact range, so the
\* subtraction and the conversions are exact.
QueueAfter(previous, s) ==
    [queue |-> s, queueChange |-> s - previous, previousQueueSize |-> s]

\* The build metrics after a Reset of each, as scrapeAgents does for e.agents.
BuildsAfterReset == [success |-> EmptyVec, failure |-> EmptyVec, count |-> EmptyVec]

\* The build metrics, as one value.
Builds == [success |-> buildSuccess, failure |-> buildFailure, count |-> buildCount]

\* The loop body with a build-count gauge that keeps the largest number.
ProcessRecordKeepingMax(b, r) ==
    LET labels == parseProjectAndName(r.plan)
        old == IF labels \in DOMAIN b.count THEN b.count[labels] ELSE 0
    IN  [ success |-> IF r.state = "Successful" THEN IncValue(b.success, labels) ELSE b.success,
          failure |-> IF r.state = "Successful" THEN b.failure ELSE IncValue(b.failure, labels),
          count   |-> SetValue(b.count, labels,
                               IF r.buildNumber > old THEN r.buildNumber ELSE old) ]

\* The body of the loop over a page: one record r.
ProcessRecord(b, r) ==
    LET labels == parseProjectAndName(r.plan)
    IN  [ success |-> IF r.state = "Successful" THEN IncValue(b.success, labels) ELSE b.success,
          failure |-> IF r.state = "Successful" THEN b.failure ELSE IncValue(b.failure, labels),
          count   |-> SetValue(b.count, labels, r.buildNumber) ]

\* The loop over a page of n records that starts at index i: the records
\* in order, the first half of the page and then the rest.  (A half of at
\* least one record leaves the count gauge non-empty: the test on it only
\* makes the first half be evaluated before the second starts.)
RECURSIVE ProcessPage(_, _, _)
ProcessPage(b, i, n) ==
    IF n = 0 THEN b
    ELSE IF n = 1 THEN ProcessRecord(b, BuildAt(i))
    ELSE LET first == ProcessPage(b, i, n \div 2)
         IN  IF first.count = EmptyVec THEN first
             ELSE ProcessPage(first, i + n \div 2, n - n \div 2)

\* The number of records on the page the server returns for start-index
\* start and max-result most.
PageLength(server, start, most) ==
    LET held == server.total + server.growth * start
        left == IF held > start THEN held - start ELSE 0
    IN  Min({left, server.limit, most})

\* The results.size the server reports on the page at start-index start.
ReportedSize(server, start) == server.reported + server.growth * start

\* totalSize read again from every page.
TotalSizeOfEachPage(old, size) == size

\* totalSize after a page that reports size: read from the first page that
\* finds it 0.
TotalSize(old, size) == IF old = 0 THEN size ELSE old

\* The end test that asks for more than the total.
EndOfPagesBeyondTotal(fetchedCount, total, n) == fetchedCount > total \/ n = 0

\* The test that ends the pagination.
EndOfPages(fetchedCount, total, n) == fetchedCount >= total \/ n = 0

\* ---------------------------------------------------------------- actions

\* A goroutine calls Collect and reaches e.mutex.Lock().
Collect(c) ==
    /\ pc[c] = "idle"
    /\ scrapes < MaxScrapes
    /\ pc' = [pc EXCEPT ![c] = "lock"]
    /\ scrapes' = scrapes + 1
    /\ UNCHANGED <<mutex, success, currentIndex, totalSize, failures, metrics, ch,
                   bamboo, trace, begin, lastAgents, agentsBy, current, ticket, upZero, upOne,
                   observed, queueBy>>

\* Collect entered without waiting for the mutex (the Lock call left out).
LockWithoutWaiting(c) ==
    /\ pc[c] = "lock"
    /\ mutex' = c
    /\ bamboo' \in Upstreams
    /\ pc' = [pc EXCEPT ![c] = "agents"]
    /\ trace' = <<>>
    /\ begin' = State
    /\ current' = current + 1
    /\ ticket' = [ticket EXCEPT ![c] = current + 1]
    /\ UNCHANGED <<success, currentIndex, totalSize, failures, metrics, ch,
                   scrapes, lastAgents, agentsBy, upZero, upOne, observed, queueBy>>

\* Collect that enters scrapeMetrics whether or not the mutex is free.
LockOnWithoutWaiting(c, servers) ==
    /\ pc[c] = "lock"
    /\ mutex' = c
    /\ bamboo' \in servers
    /\ pc' = [pc EXCEPT ![c] = "agents"]
    /\ trace' = <<>>
    /\ begin' = State
    /\ current' = current + 1
    /\ ticket' = [ticket EXCEPT ![c] = current + 1]
    /\ UNCHANGED <<success, currentIndex, totalSize, failures, metrics, ch,
                   scrapes, lastAgents, agentsBy, upZero, upOne, observed, queueBy>>

\* e.mutex.Lock() returns: the caller enters scrapeMetrics.  The server is
\* in one of the states `servers` for the length of the scrape.
LockOn(c, servers) ==
    /\ pc[c] = "lock"
    /\ mutex = 0
    /\ mutex' = c
    /\ bamboo' \in servers
    /\ pc' = [pc EXCEPT ![c] = "agents"]
    /\ trace' = <<>>
    /\ begin' = State
    /\ current' = current + 1
    /\ ticket' = [ticket EXCEPT ![c] = current + 1]
    /\ UNCHANGED <<success, currentIndex, totalSize, failures, metrics, ch,
                   scrapes, lastAgents, agentsBy, upZero, upOne, observed, queueBy>>

\* e.mutex.Lock() returns, with the server in one of the states Upstreams.
Lock(c) == LockOn(c, Upstreams)

\* The position after the step at position p.
NextStep(p) == CASE p = "agents" -> "queue" [] p = "queue" -> "results" [] OTHER -> "emit"

\* An error branch without its return: the failure is counted and the next
\* step runs.
FailWithoutReturn(c, f) ==
    /\ failures' = failures + 1
    /\ success' = [success EXCEPT ![c] = 0]
    /\ pc' = [pc EXCEPT ![c] = NextStep(pc[c])]
    /\ currentIndex' = [currentIndex EXCEPT ![c] = 0]
    /\ totalSize' = [totalSize EXCEPT ![c] = 0]
    /\ trace' = Append(trace, f)
    /\ UNCHANGED <<mutex, metrics, ch, bamboo, scrapes, begin, lastAgents, agentsBy,
                   current, ticket, upZero, upOne, observed, queueBy>>

\* An error branch without e.failures.Inc().
FailWithoutInc(c, f) ==
    /\ success' = [success EXCEPT ![c] = 0]
    /\ pc' = [pc EXCEPT ![c] = "emit"]
    /\ currentIndex' = [currentIndex EXCEPT ![c] = 0]
    /\ totalSize' = [totalSize EXCEPT ![c] = 0]
    /\ trace' = Append(trace, f)
    /\ UNCHANGED <<mutex, failures, metrics, ch, bamboo, scrapes, begin, lastAgents,
                   agentsBy, current, ticket, upZero, upOne, observed, queueBy>>

\* An error branch that also clears the queue-change gauge.
FailClearingQueueChange(c, f) ==
    /\ failures' = failures + 1
    /\ success' = [success EXCEPT ![c] = 0]
    /\ pc' = [pc EXCEPT ![c] = "emit"]
    /\ currentIndex' = [currentIndex EXCEPT ![c] = 0]
    /\ totalSize' = [totalSize EXCEPT ![c] = 0]
    /\ trace' = Append(trace, f)
    /\ queueChange' = 0
    /\ UNCHANGED <<mutex, agents, queue, utilization, previousQueueSize, buildSuccess,
                   buildFailure, buildCount, ch, bamboo, scrapes, begin, lastAgents,
                   agentsBy, current, ticket, upZero, upOne, observed, queueBy>>

\* An error branch that puts back the previousQueueSize of the call's begin.
FailRestoringPrevious(c, f) ==
    /\ failures' = failures + 1
    /\ success' = [success EXCEPT ![c] = 0]
    /\ pc' = [pc EXCEPT ![c] = "emit"]
    /\ currentIndex' = [currentIndex EXCEPT ![c] = 0]
    /\ totalSize' = [totalSize EXCEPT ![c] = 0]
    /\ trace' = Append(trace, f)
    /\ previousQueueSize' = begin.previousQueueSize
    /\ UNCHANGED <<mutex, agents, queue, utilization, queueChange,
                   buildSuccess, buildFailure, buildCount, ch, bamboo, scrapes, begin,
                   lastAgents, agentsBy, current, ticket, upZero, upOne, observed,
                   queueBy>>

\* An error branch that also sets the queue gauge to 0.
FailClearingQueue(c, f) ==
    /\ failures' = failures + 1
    /\ success' = [success EXCEPT ![c] = 0]
    /\ pc' = [pc EXCEPT ![c] = "emit"]
    /\ currentIndex' = [currentIndex EXCEPT ![c] = 0]
    /\ totalSize' = [totalSize EXCEPT ![c] = 0]
    /\ trace' = Append(trace, f)
    /\ queue' = 0
    /\ UNCHANGED <<mutex, agents, utilization, queueChange, previousQueueSize,
                   buildSuccess, buildFailure, buildCount, ch, bamboo, scrapes, begin,
                   lastAgents, agentsBy, current, ticket, upZero, upOne, observed,
                   queueBy>>

\* An error branch that also resets the agent-status set.
FailResettingAgents(c, f) ==
    /\ failures' = failures + 1
    /\ success' = [success EXCEPT ![c] = 0]
    /\ pc' = [pc EXCEPT ![c] = "emit"]
    /\ currentIndex' = [currentIndex EXCEPT ![c] = 0]
    /\ totalSize' = [totalSize EXCEPT ![c] = 0]
    /\ trace' = Append(trace, f)
    /\ agents' = EmptyVec
    /\ UNCHANGED <<mutex, queue, utilization, queueChange, previousQueueSize,
                   buildSuccess, buildFailure, buildCount, ch, bamboo, scrapes, begin,
                   lastAgents, agentsBy, current, ticket, upZero, upOne, observed, queueBy>>

\* The error branch of scrapeMetrics for the step that issued fetch f:
\* log, e.failures.Inc(), return 0.
Fail(c, f) ==
    /\ failures' = failures + 1
    /\ success' = [success EXCEPT ![c] = 0]
    /\ pc' = [pc EXCEPT ![c] = "emit"]
    /\ currentIndex' = [currentIndex EXCEPT ![c] = 0]
    /\ totalSize' = [totalSize EXCEPT ![c] = 0]
    /\ trace' = Append(trace, f)
    /\ UNCHANGED <<mutex, metrics, ch, bamboo, scrapes, begin, lastAgents, agentsBy,
                   current, ticket, upZero, upOne, observed, queueBy>>

\* scrapeAgents with the Reset done before the fetch.
ScrapeAgentsResetFirst(c) ==
    /\ pc[c] = "agents"
    /\ \/ /\ agents' = EmptyVec
          /\ failures' = failures + 1
          /\ success' = [success EXCEPT ![c] = 0]
          /\ pc' = [pc EXCEPT ![c] = "emit"]
          /\ \E env \in ServingEnvironments :
                trace' = Append(trace, Fetch("agent", 0, Undecodable(doRequest(env)), 0, 0))
          /\ UNCHANGED <<mutex, currentIndex, totalSize, queue, utilization, queueChange,
                         previousQueueSize, buildSuccess, buildFailure, buildCount, ch,
                         bamboo, scrapes, begin, lastAgents, agentsBy, current, ticket, upZero,
                         upOne, observed, queueBy>>
       \/ LET list == bamboo.agents
          IN/\ agents' = SetAgents(EmptyVec, list)
            /\ utilization' = UtilizationAfter(utilization, list)
            /\ pc' = [pc EXCEPT ![c] = "queue"]
            /\ \E env \in ServingEnvironments :
                  trace' = Append(trace, Fetch("agent", 0, doRequest(env), 0, Len(list)))
            /\ lastAgents' = list
            /\ agentsBy' = current
            /\ UNCHANGED <<mutex, success, currentIndex, totalSize, failures, queue,
                           queueChange, previousQueueSize, buildSuccess, buildFailure,
                           buildCount, ch, bamboo, scrapes, begin, current, ticket, upZero, upOne,
                           observed, queueBy>>

\* scrapeAgents, and scrapeMetrics up to the next fetch.
ScrapeAgents(c) ==
    /\ pc[c] = "agents"
    /\ \/ \E env \in FailingEnvironments :
            Fail(c, Fetch("agent", 0, doRequest(env), 0, 0))
       \/ \E env \in ServingEnvironments :
            Fail(c, Fetch("agent", 0, Undecodable(doRequest(env)), 0, 0))
       \/ \E env \in ServingEnvironments :
          LET list == bamboo.agents
          IN/\ agents' = AgentsAfter(agents, list)
            /\ utilization' = UtilizationAfter(utilization, list)
            /\ pc' = [pc EXCEPT ![c] = "queue"]
            /\ trace' = Append(trace, Fetch("agent", 0, doRequest(env), 0, Len(list)))
            /\ lastAgents' = list
            /\ agentsBy' = current
            /\ UNCHANGED <<mutex, success, currentIndex, totalSize, failures, queue,
                           queueChange, previousQueueSize, buildSuccess, buildFailure,
                           buildCount, ch, bamboo, scrapes, begin, current, ticket, upZero,
                           upOne, observed, queueBy>>

\* scrapeQueue, and scrapeMetrics up to the first fetch of scrapeBuildResults.
ScrapeQueue(c) ==
    /\ pc[c] = "queue"
    /\ \/ \E env \in FailingEnvironments :
            Fail(c, Fetch("queue", 0, doRequest(env), 0, 0))
       \/ \E env \in ServingEnvironments :
            Fail(c, Fetch("queue", 0, Undecodable(doRequest(env)), 0, 0))
       \/ \E env \in ServingEnvironments :
          LET s == bamboo.queue
              after == QueueAfter(previousQueueSize, s)
          IN    /\ queue' = after.queue
                /\ queueChange' = after.queueChange
                /\ previousQueueSize' = after.previousQueueSize
                /\ pc' = [pc EXCEPT ![c] = "results"]
                /\ currentIndex' = [currentIndex EXCEPT ![c] = 0]
                /\ totalSize' = [totalSize EXCEPT ![c] = 0]
                /\ trace' = Append(trace, Fetch("queue", 0, doRequest(env), s, 0))
                /\ observed' = Append(observed, s)
                /\ queueBy' = ticket[c]
                /\ UNCHANGED <<mutex, success, failures, agents, utilization,
                               buildSuccess, buildFailure, buildCount, ch, bamboo,
                               scrapes, begin, lastAgents, agentsBy, current, ticket, upZero,
                               upOne>>

\* One iteration of the loop of scrapeBuildResults: the fetch of the page at
\* currentIndex, its records, and the end-of-page test; after the last page,
\* scrapeMetrics returns 1.
ScrapeBuildResults(c) ==
    /\ pc[c] = "results"
    /\ \/ \E env \in FailingEnvironments :
            Fail(c, Fetch("result", currentIndex[c], doRequest(env), 0, 0))
       \/ \E env \in ServingEnvironments :
            Fail(c, Fetch("result", currentIndex[c], Undecodable(doRequest(env)), 0, 0))
       \/ \E env \in ServingEnvironments :
            LET size == ReportedSize(bamboo, currentIndex[c])
                n == PageLength(bamboo, currentIndex[c], maxResult)
                total == TotalSize(totalSize[c], size)
                after == ProcessPage(Builds, currentIndex[c], n)
                fetchedCount == currentIndex[c] + n
            IN  /\ buildSuccess' = after.success
                /\ buildFailure' = after.failure
                /\ buildCount' = after.count
                /\ trace' = Append(trace, Fetch("result", currentIndex[c], doRequest(env), size, n))
                /\ IF EndOfPages(fetchedCount, total, n)
                   THEN /\ success' = [success EXCEPT ![c] = 1]
                        /\ pc' = [pc EXCEPT ![c] = "emit"]
                        /\ currentIndex' = [currentIndex EXCEPT ![c] = 0]
                        /\ totalSize' = [totalSize EXCEPT ![c] = 0]
                   ELSE /\ currentIndex' = [currentIndex EXCEPT ![c] = fetchedCount]
                        /\ totalSize' = [totalSize EXCEPT ![c] = total]
                        /\ UNCHANGED <<pc, success>>
                /\ UNCHANGED <<mutex, failures, agents, utilization, queue, queueChange,
                               previousQueueSize, ch, bamboo, scrapes, begin,
                               lastAgents, agentsBy, current, ticket, upZero, upOne, observed,
                               queueBy>>

\* The samples Collect sends after scrapeMetrics returned up.
Samples(up) ==
    [ up |-> up, failures |-> failures, agents |-> agents, queue |-> queue,
      utilization |-> utilization, queueChange |-> queueChange,
      buildSuccess |-> buildSuccess, buildFailure |-> buildFailure,
      buildCount |-> buildCount ]

\* Collect with an Unlock on the success path only, in place of the defer.
EmitUnlockingOnSuccess(c) ==
    /\ pc[c] = "emit"
    /\ ch' = <<Samples(success[c])>>
    /\ mutex' = IF success[c] = 1 THEN 0 ELSE mutex
    /\ pc' = [pc EXCEPT ![c] = "idle"]
    /\ success' = [success EXCEPT ![c] = 0]
    /\ upZero' = IF success[c] = 0 THEN upZero + 1 ELSE upZero
    /\ upOne' = IF success[c] = 0 THEN upOne ELSE upOne + 1
    /\ trace' = <<>>
    /\ begin' = State
    /\ ticket' = [ticket EXCEPT ![c] = 0]
    /\ UNCHANGED <<currentIndex, totalSize, failures, metrics, bamboo, scrapes,
                   lastAgents, agentsBy, current, observed, queueBy>>

\* Collect without the deferred Unlock.
EmitKeepingTheLock(c) ==
    /\ pc[c] = "emit"
    /\ ch' = <<Samples(success[c])>>
    /\ pc' = [pc EXCEPT ![c] = "idle"]
    /\ success' = [success EXCEPT ![c] = 0]
    /\ upZero' = IF success[c] = 0 THEN upZero + 1 ELSE upZero
    /\ upOne' = IF success[c] = 0 THEN upOne ELSE upOne + 1
    /\ trace' = <<>>
    /\ begin' = State
    /\ ticket' = [ticket EXCEPT ![c] = 0]
    /\ UNCHANGED <<mutex, currentIndex, totalSize, failures, metrics, bamboo, scrapes,
                   lastAgents, agentsBy, current, observed, queueBy>>

\* The rest of Collect: the up sample and the metrics are sent, and the
\* deferred e.mutex.Unlock() runs.
Emit(c) ==
    /\ pc[c] = "emit"
    /\ ch' = <<Samples(success[c])>>
    /\ mutex' = 0
    /\ pc' = [pc EXCEPT ![c] = "idle"]
    /\ success' = [success EXCEPT ![c] = 0]
    /\ upZero' = IF success[c] = 0 THEN upZero + 1 ELSE upZero
    /\ upOne' = IF success[c] = 0 THEN upOne ELSE upOne + 1
    /\ trace' = <<>>
    /\ begin' = State
    /\ ticket' = [ticket EXCEPT ![c] = 0]
    /\ UNCHANGED <<currentIndex, totalSize, failures, metrics, bamboo, scrapes,
                   lastAgents, agentsBy, current, observed, queueBy>>

\* The steps of caller c.
Step(c) ==
    \/ Collect(c)
    \/ Lock(c)
    \/ ScrapeAgents(c)
    \/ ScrapeQueue(c)
    \/ ScrapeBuildResults(c)
    \/ Emit(c)

Next == \E c \in Callers : Step(c) /\ UNCHANGED calls

Spec == Init /\ [][Next]_vars

namespace == "bamboo"

\* prometheus.BuildFQName(namespace, "", name)
BuildFQName(ns, name) == ns \o "_" \o name

\* The descriptors of the metrics created by NewExporter, in the order in
\* which Describe sends them.
Descriptors ==
    << BuildFQName(namespace, "up"),
       BuildFQName(namespace, "scrape_failures_total"),
       BuildFQName(namespace, "agents_status"),
       BuildFQName(namespace, "queue_size"),
       BuildFQName(namespace, "agent_utilization"),
       BuildFQName(namespace, "queue_change"),
       BuildFQName(namespace, "build_success_total"),
       BuildFQName(namespace, "build_failure_total"),
       BuildFQName(namespace, "build_total") >>

\* Describe that locks the mutex as Collect does.
DescribeUnderLock ==
    /\ mutex = 0
    /\ Len(described) < MaxDescribes
    /\ described' = Append(described, [sent |-> Descriptors, locked |-> mutex # 0])
    /\ UNCHANGED <<mutex, locals, failures, metrics, ch, bamboo, history, planName, parsed>>

\* Describe: a whole call.
Describe ==
    /\ Len(described) < MaxDescribes
    /\ described' = Append(described, [sent |-> Descriptors, locked |-> mutex # 0])
    /\ UNCHANGED <<mutex, locals, failures, metrics, ch, bamboo, history, planName, parsed>>

\* A call parseProjectAndName(planName) returns.
Parse ==
    /\ parsed = <<>>
    /\ parsed' = parseProjectAndName(planName)
    /\ UNCHANGED <<mutex, locals, failures, metrics, ch, bamboo, history, described,
                   planName>>

\* parseProjectAndName alone, called with any of the plan names explored.
InitLabels ==
    /\ NewExporter
    /\ planName \in PlanNames
    /\ parsed = <<>>

NextLabels == Parse

SpecLabels == InitLabels /\ [][NextLabels]_vars

\* The steps of caller c against a server in one of the states `servers`.
StepOn(c, servers) ==
    \/ Collect(c)
    \/ LockOn(c, servers)
    \/ ScrapeAgents(c)
    \/ ScrapeQueue(c)
    \/ ScrapeBuildResults(c)
    \/ Emit(c)

\* Collect and Describe calls, against the servers of FewUpstreams.
NextDescribe ==
    \/ \E c \in Callers : StepOn(c, FewUpstreams) /\ UNCHANGED calls
    \/ Describe

SpecDescribe == Init /\ [][NextDescribe]_vars

\* Collect calls against the servers of FewUpstreams.
NextFew == \E c \in Callers : StepOn(c, FewUpstreams) /\ UNCHANGED calls

\* Caller c is given the mutex.
Acquire(c) == LockOn(c, FewUpstreams) /\ UNCHANGED calls

\* The fetch caller c waits for returns and the code up to the next fetch
\* runs, or its samples are received and Collect returns.
Return(c) ==
    (ScrapeAgents(c) \/ ScrapeQueue(c) \/ ScrapeBuildResults(c) \/ Emit(c))
    /\ UNCHANGED calls

\* The collector when every fetch returns and the registry receives what
\* Collect sends (the code sets no timeout on its http.Client, so this is
\* an assumption on the upstream), and the mutex is handed to every
\* goroutine that waits for it (sync.Mutex hands the lock to a waiter that
\* has waited for more than a millisecond before any newcomer gets it).
SpecFair ==
    /\ Init
    /\ [][NextFew]_vars
    /\ \A c \in Callers : WF_vars(Return(c)) /\ SF_vars(Acquire(c))

\* The collector against the servers of PagedUpstreams.
NextPages == \E c \in Callers : StepOn(c, PagedUpstreams) /\ UNCHANGED calls

SpecPages == Init /\ [][NextPages]_vars

\* ----------------------------------------------------------------- claims

\* The callers that are inside the scrape.
Scraping == { c \in Callers : pc[c] \in InScrape }

\* The collector state: what a scrape may write.
collectorState == <<failures, metrics>>

\* Every fetch of the call in progress succeeded so far.
NoError == \A i \in 1 .. Len(trace) : trace[i].out = ""

\* The call in progress ran the three steps and none failed.
AllSucceeded == Len(trace) >= 3 /\ NoError

\* C1: at most one caller is inside the scrape at any time, and every step
\* that changes the collector state (previousQueueSize, the agent-status
\* set, the gauges, the build counters and gauges, the failure counter) is
\* a step of the caller that holds the lock.
C1_OneScrapeAtATime ==
    [][ /\ Cardinality(Scraping') <= 1
        /\ collectorState' # collectorState =>
              \E c \in Callers : mutex = c /\ pc[c] \in InScrape /\ Step(c) ]_vars

\* A caller waits for the lock while the other, holding it, has written.
C1_Witness ==
    \E c, d \in Callers :
        /\ c # d
        /\ mutex = c /\ pc[c] = "results"
        /\ pc[d] = "lock"
        /\ State # begin

\* C2: the fetches of one call are the agent fetch, then the queue fetch,
\* then the result fetches, each one issued only after all before it
\* succeeded: a failed fetch is the last of its call.
C2_StepsInOrder ==
    /\ \A i \in 1 .. Len(trace) :
          /\ trace[i].ep = (CASE i = 1 -> "agent" [] i = 2 -> "queue" [] OTHER -> "result")
          /\ i < Len(trace) => trace[i].out = ""
    /\ \A c \in Scraping :
          /\ pc[c] = "agents" => trace = <<>>
          /\ pc[c] = "queue" => Len(trace) = 1 /\ NoError
          /\ pc[c] = "results" => Len(trace) >= 2 /\ NoError
          /\ pc[c] = "emit" => Len(trace) >= 1 /\ (NoError => Len(trace) >= 3)

\* The queue fetch failed and the call ended without a result fetch.
C2_Witness ==
    \E c \in Callers :
        pc[c] = "emit" /\ Len(trace) = 2 /\ trace[2].out # "" /\ trace[1].out = ""

\* C3: a call sends one up sample: 1, with the failure counter as it was
\* when the call began, exactly if its three steps succeeded, and otherwise
\* 0, with the failure counter one higher.  The failure counter is the
\* number of calls that sent up = 0.
C3_UpAndFailures ==
    /\ \A c \in Callers :
          pc[c] = "emit" =>
              /\ success[c] = (IF AllSucceeded THEN 1 ELSE 0)
              /\ failures = begin.failures + (IF AllSucceeded THEN 0 ELSE 1)
    /\ Scraping = {} =>
          /\ upZero + upOne = current
          /\ failures = upZero
          /\ ch # <<>> => ch[1].failures = failures /\ ch[1].up \in {0, 1}
    /\ \A c \in Scraping :
          /\ upZero + upOne = current - 1
          /\ failures = upZero + (IF pc[c] = "emit" /\ success[c] = 0 THEN 1 ELSE 0)

\* Two calls have returned, one with up = 0 and one with up = 1.
C3_Witness == Scraping = {} /\ upZero = 1 /\ upOne = 1 /\ ch # <<>> /\ ch[1].up = 0

\* The metrics other than the up indicator and the failure counter, in a
\* collector state st.
Frozen(st) == [st EXCEPT !.failures = 0]

\* One entry of value 1 per distinct label tuple of the agents of list.
ExpectedAgents(list) ==
    [ l \in { AgentLabels(list[i]) : i \in 1 .. Len(list) } |-> 1 ]

\* The utilization gauge is busy/active of list, or, with no active agent
\* in list, the value before.
UtilizationIs(list, before) ==
    IF activeCount(list) > 0
    THEN utilization.num * activeCount(list) = busyCount(list) * utilization.den
    ELSE utilization = before

\* The build metrics of the collector state st.
BuildsOf(st) ==
    [success |-> st.buildSuccess, failure |-> st.buildFailure, count |-> st.buildCount]

\* C4 as claimed: at the end of a failed call every metric other than the up
\* indicator and the failure counter has the value it had when the call began.
C4_FreezeFromBegin ==
    \A c \in Callers :
        pc[c] = "emit" /\ success[c] = 0 => Frozen(State) = Frozen(begin)

\* C4, amended: at the end of a failed call the metrics of the steps (and
\* result pages) that completed before the failing fetch have the values
\* those gave them, and every other metric has the value it had when the
\* call began: the failure itself changes the failure counter only.
C4_FreezeFromFailure ==
    \A c \in Callers :
        pc[c] = "emit" /\ success[c] = 0 =>
            LET done == Len(trace) - 1
            IN  /\ agents = (IF done >= 1 THEN ExpectedAgents(bamboo.agents) ELSE begin.agents)
                /\ IF done >= 1 THEN UtilizationIs(bamboo.agents, begin.utilization)
                   ELSE utilization = begin.utilization
                /\ <<queue, queueChange, previousQueueSize>> =
                      (IF done >= 2
                       THEN <<bamboo.queue, bamboo.queue - begin.previousQueueSize, bamboo.queue>>
                       ELSE <<begin.queue, begin.queueChange, begin.previousQueueSize>>)
                /\ Builds = (IF done >= 3
                             THEN ProcessPage(BuildsOf(begin), 0, trace[Len(trace)].start)
                             ELSE BuildsOf(begin))

\* The fetch of a second result page failed after the first page was counted.
C4_Witness ==
    \E c \in Callers :
        /\ pc[c] = "emit" /\ success[c] = 0
        /\ Len(trace) >= 4
        /\ Builds # BuildsOf(begin)

\* C5: when the queue fetch or decode fails after the agent step succeeded,
\* the queue gauge, the queue-change gauge, previousQueueSize and the build
\* metrics are as before the call, the agent-status set and the utilization
\* are as the agent step of this call set them, up is 0 and the failure
\* counter is one higher.
C5_QueueFailure ==
    \A c \in Callers :
        pc[c] = "emit" /\ Len(trace) = 2 /\ trace[1].out = "" /\ trace[2].out # "" =>
            /\ queue = begin.queue
            /\ queueChange = begin.queueChange
            /\ previousQueueSize = begin.previousQueueSize
            /\ Builds = BuildsOf(begin)
            /\ agents = ExpectedAgents(bamboo.agents)
            /\ UtilizationIs(bamboo.agents, begin.utilization)
            /\ success[c] = 0
            /\ failures = begin.failures + 1

\* The queue body did not decode, in a call that replaced the agents of an
\* earlier scrape; the queue metrics are those of the earlier scrape.
C5_Witness ==
    \E c \in Callers :
        /\ pc[c] = "emit" /\ Len(trace) = 2
        /\ trace[1].out = "" /\ trace[2].out = "unmarshaling"
        /\ previousQueueSize = 5 /\ queueChange = 5
        /\ agents # begin.agents /\ begin.agents # EmptyVec

\* C6: whatever failed, the lock is free again once no call is inside the
\* scrape, so a waiting caller can take it, and a call that follows a failed
\* one and meets no error runs the three steps and sends up = 1.
C6_FailureDoesNotBlock ==
    /\ Scraping = {} => mutex = 0
    /\ \A c \in Callers : pc[c] = "lock" /\ Scraping = {} => ENABLED Lock(c)
    /\ \A c \in Callers : pc[c] = "emit" => ENABLED Emit(c)
    /\ \A c \in Callers :
          pc[c] = "emit" /\ upZero > 0 /\ NoError =>
              /\ mutex = c
              /\ success[c] = 1
              /\ Len(trace) >= 3
              /\ trace[1].ep = "agent" /\ trace[2].ep = "queue" /\ trace[3].ep = "result"

\* A call that follows a failed one has succeeded.
C6_Witness ==
    \E c \in Callers : pc[c] = "emit" /\ upZero > 0 /\ success[c] = 1

\* C7: after a call whose agent step succeeded the agent-status set holds
\* one entry of value 1 per distinct label tuple of the agents returned in
\* that call, and nothing else.
C7_AgentsReplaced ==
    \A c \in Callers :
        pc[c] = "emit" /\ trace[1].out = "" =>
            /\ agents = ExpectedAgents(bamboo.agents)
            /\ \A i \in 1 .. Len(bamboo.agents) :
                  bamboo.agents[i] = A3 =>
                      <<"12", "a3", "REMOTE", "false", "false", "true">> \in DOMAIN agents

\* An agent of the scrape before is not among those of this scrape.
C7_Witness ==
    \E c \in Callers :
        /\ pc[c] = "emit" /\ trace[1].out = ""
        /\ \E l \in DOMAIN begin.agents : l \notin DOMAIN agents
        /\ agents # EmptyVec

\* C8 as claimed: the agent-status entries a call sends, failed calls
\* included, were all written by that call.
C8_NeverStale ==
    \A c \in Callers :
        pc[c] = "emit" /\ agents # EmptyVec => agentsBy = current

\* C8, amended: the agent-status entries a call sends are those of the most
\* recent call whose agent step succeeded, and of that call only: the call
\* itself if its agent step succeeded, else unchanged by it.
C8_AgentsOfLastSuccess ==
    /\ agents = ExpectedAgents(lastAgents)
    /\ \A c \in Callers :
          pc[c] = "emit" =>
              IF trace[1].out = ""
              THEN agentsBy = current /\ lastAgents = bamboo.agents
              ELSE agentsBy < current /\ agents = begin.agents
    /\ Scraping = {} /\ ch # <<>> => ch[1].agents = agents

\* A call whose agent fetch failed sends the entries of an earlier scrape.
C8_Witness ==
    \E c \in Callers :
        pc[c] = "emit" /\ trace[1].out # "" /\ agents # EmptyVec /\ agentsBy = 1

\* C9: after a successful agent step with A active and B busy agents the
\* utilization gauge is B/A if A > 0 (1/4 for 4 active and 1 busy) and is
\* what it was before the step if A = 0; it is 0 until an agent step
\* succeeds.
C9_Utilization ==
    /\ agentsBy = 0 => utilization = Zero
    /\ \A c \in Callers :
          pc[c] \in {"queue", "results", "emit"} /\ trace[1].out = "" =>
              /\ UtilizationIs(bamboo.agents, begin.utilization)
              /\ activeCount(bamboo.agents) = 4 /\ busyCount(bamboo.agents) = 1 =>
                    utilization = [num |-> 1, den |-> 4]

\* No agent of this scrape is active and the gauge is still the 1/4 that a
\* scrape with 4 active and 1 busy agents gave it.
C9_Witness ==
    \E c \in Callers :
        /\ pc[c] = "emit" /\ trace[1].out = ""
        /\ activeCount(bamboo.agents) = 0
        /\ utilization = [num |-> 1, den |-> 4]

\* The size the i-th successful queue step observed; 0 before the first.
Observed(i) == IF i >= 1 THEN observed[i] ELSE 0

\* C10: a successful queue step that observes s sets the queue gauge to s,
\* the queue-change gauge to s minus the size the successful queue step
\* before it observed (0 if none), and stores s as previousQueueSize.
C10_QueueChange ==
    LET n == Len(observed)
    IN  /\ queue = Observed(n)
        /\ previousQueueSize = Observed(n)
        /\ queueChange = Observed(n) - Observed(n - 1)
        /\ \A c \in Callers :
              pc[c] \in {"results", "emit"} /\ Len(trace) >= 2 /\ trace[2].out = "" =>
                  n >= 1 /\ observed[n] = bamboo.queue
        /\ observed = <<5>> => queueChange = 5
        /\ observed = <<5, 3>> => queueChange = -2 /\ previousQueueSize = 3

\* 5 was observed, then 3.
C10_Witness == observed = <<5, 3>> /\ queue = 3

\* The result fetches of the call in progress, in order.
ResultFetches == SelectSeq(trace, LAMBDA f : f.ep = "result")

\* The label pair of the build result at index i.
LabelsAt(i) == parseProjectAndName(BuildAt(i).plan)

\* The value of the sample k of vec (0 when there is none).
Count(vec, k) == IF k \in DOMAIN vec THEN vec[k] ELSE 0

\* The plan names of the first t results.
PlansOf(t) == { BuildAt(i).plan : i \in 0 .. t - 1 }

\* The label pairs of the first t results.
Seen(t) == { parseProjectAndName(p) : p \in PlansOf(t) }

\* The results among the first t that have label pair k: those whose plan
\* name is parsed into k.
ResultsWith(t, k) ==
    LET plans == { p \in PlansOf(t) : parseProjectAndName(p) = k }
    IN  { i \in 0 .. t - 1 : BuildAt(i).plan \in plans }

\* Those of them that ended successfully (ok) or otherwise (~ok).
ResultsOf(t, k, ok) ==
    { i \in ResultsWith(t, k) : (BuildAt(i).state = "Successful") = ok }

\* Since the call began, every one of the first t results was counted once.
FoldedOnce(t) ==
    \A k \in Seen(t) \cup DOMAIN buildSuccess \cup DOMAIN buildFailure :
        /\ Count(buildSuccess, k) =
              Count(begin.buildSuccess, k) + Cardinality(ResultsOf(t, k, TRUE))
        /\ Count(buildFailure, k) =
              Count(begin.buildFailure, k) + Cardinality(ResultsOf(t, k, FALSE))

\* C11: against a server that reports T results and serves the records
\* i .. min(i + 100, T) - 1 for start-index i, a successful build-result
\* step has made max(1, ceil(T / 100)) fetches, at start-indexes 0, 100,
\* 200, ... with max-result 100, and has counted each of the T records once.
C11_PagesOfHonestServer ==
    \A c \in Callers :
        (pc[c] = "emit" /\ success[c] = 1 /\ Honest(bamboo)) =>
            LET T == bamboo.total
                pages == ResultFetches
            IN  /\ Len(pages) = IF T = 0 THEN 1 ELSE (T + 99) \div 100
                /\ \A k \in 1 .. Len(pages) :
                      pages[k].start = 100 * (k - 1) /\ pages[k].most = 100
                /\ FoldedOnce(T)

\* 150 results were fetched with two fetches, at 0 and at 100.
C11_Witness ==
    \E c \in Callers :
        /\ pc[c] = "emit" /\ success[c] = 1 /\ Honest(bamboo) /\ bamboo.total = 150
        /\ Len(ResultFetches) = 2
        /\ ResultFetches[1].start = 0 /\ ResultFetches[2].start = 100
        /\ ResultFetches[1].n = 100 /\ ResultFetches[2].n = 50

\* C12: the pagination goes on to the next page exactly while the last
\* page had records and the records fetched so far are fewer than the size
\* the first page reported, whatever later pages report; so a step makes at
\* most max(1, size reported on the first page) fetches, and ends.
C12_PaginationStops ==
    \A c \in Callers :
        LET pages == ResultFetches
            last == pages[Len(pages)]
            reported == pages[1].size
            fetched == last.start + last.n
        IN  (pc[c] \in {"results", "emit"} /\ pages # <<>>) =>
                /\ pc[c] = "results" => (last.out = "" /\ last.n > 0 /\ fetched < reported)
                /\ (pc[c] = "emit" /\ success[c] = 1) => (last.n = 0 \/ fetched >= reported)
                /\ (pc[c] = "emit" /\ success[c] = 0) => last.out # ""
                /\ Len(pages) <= IF reported > 1 THEN reported ELSE 1

\* A step ended after as many fetches as the first page reported results,
\* against a server that reported a larger size on every later page and had
\* more records to serve.
C12_Witness ==
    \E c \in Callers :
        /\ pc[c] = "emit" /\ success[c] = 1
        /\ Len(ResultFetches) = 3
        /\ ResultFetches[1].size = 3
        /\ ResultFetches[2].size > 3
        /\ ResultFetches[3].size > ResultFetches[2].size
        /\ PageLength(bamboo, 3, maxResult) > 0

\* The number of records the result pages of the call in progress held.
Processed ==
    LET ok == SelectSeq(ResultFetches, LAMBDA f : f.out = "")
    IN  IF ok = <<>> THEN 0 ELSE ok[Len(ok)].start + ok[Len(ok)].n

\* The index of the last of the first t results that has label pair k.
LastOf(t, k) ==
    LET with == ResultsWith(t, k)
    IN  CHOOSE i \in with : \A j \in i + 1 .. t - 1 : j \notin with

Reflects(b, t) ==
    \A k \in Seen(t) \cup DOMAIN b.success \cup DOMAIN b.failure :
        /\ Count(b.success, k) = Cardinality(ResultsOf(t, k, TRUE))
        /\ Count(b.failure, k) = Cardinality(ResultsOf(t, k, FALSE))

\* C14: the build counters are the numbers of successful and failed builds
\* of each plan: a successful scrape that has processed all T results of the
\* server, begun with counters that were empty or already counted each of
\* these T results once, ends with counters that count each of them once
\* (so any number of successful scrapes of an unchanged server does).
C14_EachRecordCountedOnce ==
    \A c \in Callers :
        ( /\ pc[c] = "emit" /\ success[c] = 1
          /\ Processed = bamboo.total
          /\ \/ Reflects(BuildsOf(begin), 0)
             \/ Reflects(BuildsOf(begin), bamboo.total) )
        => Reflects(Builds, bamboo.total)

\* t is u without its leading and trailing white space.
IsTrimmed(t, u) ==
    \E a, b \in 0 .. Len(u) :
        /\ a + b <= Len(u)
        /\ t = SubSeq(u, a + 1, Len(u) - b)
        /\ \A i \in 1 .. a : IsSpace(u[i])
        /\ \A i \in Len(u) - b + 1 .. Len(u) : IsSpace(u[i])
        /\ t # <<>> => (~IsSpace(t[1]) /\ ~IsSpace(t[Len(t)]))

\* " - " occurs in s at position i.
SeparatorAt(s, i) ==
    i >= 1 /\ i + 2 <= Len(s) /\ s[i] = " " /\ s[i + 1] = "-" /\ s[i + 2] = " "

\* C15: parseProjectAndName returns a pair for every plan name: if " - "
\* occurs in the name, the project is the text before its first occurrence
\* and the name is all the text after that occurrence (later separators
\* included), both trimmed; otherwise, the empty name included, the project
\* is "Unknown" and the name is the trimmed input.
C15_LabelsOfPlanName ==
    parsed # <<>> =>
        /\ Len(parsed) = 2
        /\ IF \E i \in 1 .. Len(planName) : SeparatorAt(planName, i)
           THEN LET i == CHOOSE i \in 1 .. Len(planName) :
                            /\ SeparatorAt(planName, i)
                            /\ \A j \in 1 .. i - 1 : ~SeparatorAt(planName, j)
                IN  /\ IsTrimmed(parsed[1], SubSeq(planName, 1, i - 1))
                    /\ IsTrimmed(parsed[2], SubSeq(planName, i + 3, Len(planName)))
           ELSE /\ parsed[1] = <<"U", "n", "k", "n", "o", "w", "n">>
                /\ IsTrimmed(parsed[2], planName)

\* "a - a - a" was parsed into project "a" and name "a - a".
C15_Witness ==
    /\ planName = <<"a", " ", "-", " ", "a", " ", "-", " ", "a">>
    /\ parsed = << <<"a">>, <<"a", " ", "-", " ", "a">> >>

\* C16: a Describe call can complete in every state, also while a Collect
\* call holds the mutex and waits for a fetch; it sends the same nine
\* descriptors every time, and changes neither the mutex nor the collector
\* state, and makes no fetch.
C16_DescribeIsPassive ==
    /\ [](Len(described) < MaxDescribes => ENABLED Describe)
    /\ [][ described' # described =>
            /\ Len(described') = Len(described) + 1
            /\ SubSeq(described', 1, Len(described)) = described
            /\ described'[Len(described')].sent =
                  << "bamboo_up", "bamboo_scrape_failures_total", "bamboo_agents_status",
                     "bamboo_queue_size", "bamboo_agent_utilization", "bamboo_queue_change",
                     "bamboo_build_success_total", "bamboo_build_failure_total",
                     "bamboo_build_total" >>
            /\ UNCHANGED <<mutex, locals, failures, metrics, ch, bamboo, history>> ]_vars

\* Two Describe calls have completed, the second while a Collect call held
\* the mutex, and that call is still at a fetch of build results.
C16_Witness ==
    /\ Len(described) = 2
    /\ ~described[1].locked /\ described[2].locked
    /\ described[1].sent = described[2].sent
    /\ mutex # 0
    /\ \E c \in Callers : mutex = c /\ pc[c] = "results"

\* Every sample of the counter vector `old` is in `new`, with a value that
\* is not smaller.
Grown(old, new) ==
    /\ DOMAIN old \subseteq DOMAIN new
    /\ \A k \in DOMAIN old : new[k] >= old[k]

\* C17: no step of any Collect call, in any interleaving, decreases the
\* scrape-failure counter or a build-success or build-failure counter, or
\* removes a label pair from these counters.
C17_CountersNeverDecrease ==
    [][ /\ failures' >= failures
        /\ Grown(buildSuccess, buildSuccess')
        /\ Grown(buildFailure, buildFailure') ]_vars

\* After a failed and a successful call, the failure counter and a build
\* counter that both calls incremented.
C17_Witness ==
    /\ Scraping = {} /\ upZero = 1 /\ upOne = 1 /\ failures = 1
    /\ \E k \in DOMAIN buildSuccess : buildSuccess[k] >= 2
    /\ DOMAIN buildFailure # {}

\* The errors of doRequest that come from reading the credentials.
CredentialErrors == {"reading config file", "unmarshaling config file"}

\* The errors of doRequest that come from the request and its response.
RequestErrors == {"performing request", "unexpected status code", "reading body"}

\* C18: every fetch of the call in progress read the credentials once and
\* ended with the body or with an error, never both: a credential error
\* without a request having been sent, a request or status error without a
\* body (a status other than 200 is an error in every environment); and
\* whichever error it was, it is the last fetch of the call, decoded
\* nothing, added one to the failure counter, and the call reports up = 0.
C18_FetchOutcomes ==
    /\ \A env \in Environments :
          (env.config = "ok" /\ env.conn # "refused" /\ env.status # 200) =>
              (doRequest(env).err = "unexpected status code" /\ ~doRequest(env).body)
    /\ \A i \in 1 .. Len(trace) :
          LET f == trace[i]
          IN  /\ f.reads = 1
              /\ f.out \in CredentialErrors \cup RequestErrors \cup {"", "unmarshaling"}
              /\ f.out \in CredentialErrors => (~f.sent /\ ~f.body)
              /\ f.out \in RequestErrors => (f.sent /\ ~f.body)
              /\ f.out \in {"", "unmarshaling"} => (f.sent /\ f.body)
              /\ f.out # "" =>
                    /\ i = Len(trace)
                    /\ f.n = 0 /\ f.size = 0
                    /\ failures = begin.failures + 1
                    /\ mutex # 0 /\ pc[mutex] = "emit" /\ success[mutex] = 0

\* A call whose agent, queue and first result fetch returned bodies, and
\* whose second result fetch found the credential file unreadable: no
\* request was sent for it.
C18_Witness ==
    /\ Len(trace) = 4
    /\ \A i \in 1 .. 3 : trace[i].out = "" /\ trace[i].body /\ trace[i].sent
    /\ trace[4].out = "reading config file" /\ ~trace[4].sent /\ ~trace[4].body
    /\ trace[4].ep = "result"

\* C19: a caller that has called Collect while another call holds the mutex
\* can take no step (so it makes no fetch and changes no state) before the
\* holder has unlocked; so it waits for as long as a fetch of the holder
\* does not return.  When every fetch returns, every Collect call returns.
C19_CallsWaitAndComplete ==
    /\ [](\A d \in Callers :
            (pc[d] = "lock" /\ mutex # 0) => ~ENABLED StepOn(d, FewUpstreams))
    /\ [][\A d \in Callers : (pc[d] = "lock" /\ pc'[d] # "lock") => mutex = 0]_vars
    /\ \A c \in Callers : (pc[c] # "idle") ~> (pc[c] = "idle")

\* A caller waits for the mutex while the holder waits for a page of build
\* results.
C19_Witness ==
    \E c, d \in Callers :
        /\ c # d
        /\ mutex = c /\ pc[c] = "results" /\ Len(ResultFetches) = 1
        /\ pc[d] = "lock"
        /\ ~ENABLED StepOn(d, FewUpstreams)

\* C20 as claimed: the first scrape reports a queue change of 0, whatever
\* queue size it observes.
C20_FirstChangeIsZero ==
    Len(observed) = 1 => queueChange = 0

\* C20: the first successful queue step of the exporter finds
\* previousQueueSize = 0 and reports s - 0, the size s it observes, as the
\* queue change: 0 only if it observes an empty queue.
C20_FirstChangeIsObservedSize ==
    \A c \in Callers :
        (pc[c] \in {"results", "emit"} /\ Len(observed) = 1
            /\ Len(trace) >= 2 /\ trace[2].out = "") =>
            /\ begin.previousQueueSize = 0 /\ begin.queueChange = 0
            /\ trace[2].size = bamboo.queue
            /\ queueChange = bamboo.queue
            /\ (queueChange = 0) = (bamboo.queue = 0)

\* The first successful queue step observed 3 and the call has ended its
\* steps with a queue change of 3.
C20_Witness ==
    \E c \in Callers :
        /\ pc[c] = "emit" /\ success[c] = 1
        /\ observed = <<3>> /\ bamboo.queue = 3 /\ queueChange = 3

\* C21: the queue state changes only in the queue step of the call that
\* holds the mutex, which is the last call that got it; the step finds in
\* previousQueueSize the size stored by the last successful queue step, a
\* step of a call that got the mutex earlier, and sets the queue change to
\* the size it observes minus that size, and stores the size it observes.
C21_QueueChangeInLockOrder ==
    [][ (observed' # observed \/ previousQueueSize' # previousQueueSize
            \/ queueChange' # queueChange \/ queueBy' # queueBy) =>
        \E c \in Callers :
            /\ mutex = c /\ pc[c] = "queue" /\ pc'[c] = "results"
            /\ ticket[c] = current
            /\ queueBy < ticket[c]
            /\ previousQueueSize = Observed(Len(observed))
            /\ observed' = Append(observed, bamboo.queue)
            /\ queueChange' = bamboo.queue - previousQueueSize
            /\ previousQueueSize' = bamboo.queue
            /\ queueBy' = ticket[c] ]_vars

\* The second call to get the mutex has set a queue change other than 0
\* from the size the first call stored, and is at its build-result step.
C21_Witness ==
    /\ Len(observed) = 2 /\ queueBy = 2 /\ current = 2
    /\ mutex # 0 /\ ticket[mutex] = 2 /\ pc[mutex] = "results"
    /\ queueChange = observed[2] - observed[1] /\ queueChange # 0

\* C22: whenever no call holds the mutex, previousQueueSize is the value
\* of the queue gauge: 0 and 0 before the first successful queue step, and
\* from then on the size the last successful queue step observed, whether
\* the calls since then succeeded or failed.  (The sizes explored are
\* integers that a float64 gauge holds exactly.)
C22_PreviousIsQueueGauge ==
    mutex = 0 =>
        /\ previousQueueSize = queue
        /\ observed = <<>> => (queue = 0 /\ queueBy = 0)
        /\ observed # <<>> => (queue = observed[Len(observed)] /\ queueBy >= 1)
        /\ ch # <<>> => ch[1].queue = previousQueueSize

\* No call holds the mutex, the last call failed after its queue step
\* had observed a queue that is not empty.
C22_Witness ==
    /\ mutex = 0 /\ Scraping = {}
    /\ ch # <<>> /\ ch[1].up = 0
    /\ queueBy = current /\ current >= 1
    /\ previousQueueSize = queue /\ queue > 0

\* The queue step of the call in progress has succeeded.
QueueStepDone == Len(trace) >= 2 /\ trace[2].out = ""

\* C23: a call that fails after its queue step succeeded leaves the size it
\* observed in the queue gauge and in previousQueueSize, and the change from
\* the size before it in the queue-change gauge; a call that fails in its
\* agent or queue step leaves all three as they were.  So the queue change
\* a call sets is the size it observes minus the queue size of the samples
\* the call before it sent, whether that call reported up = 1 or up = 0.
C23_QueueCommittedBeforeFailure ==
    \A c \in Callers :
        /\ (pc[c] = "emit" /\ success[c] = 0 /\ QueueStepDone) =>
              /\ trace[Len(trace)].ep = "result"
              /\ previousQueueSize = bamboo.queue /\ queue = bamboo.queue
              /\ queueChange = bamboo.queue - begin.previousQueueSize
              /\ queueBy = ticket[c]
        /\ (pc[c] = "emit" /\ success[c] = 0 /\ ~QueueStepDone) =>
              /\ trace[Len(trace)].ep \in {"agent", "queue"}
              /\ previousQueueSize = begin.previousQueueSize
              /\ queue = begin.queue /\ queueChange = begin.queueChange
              /\ queueBy < ticket[c]
        /\ (pc[c] \in {"results", "emit"} /\ QueueStepDone) =>
              queueChange = bamboo.queue - (IF ch = <<>> THEN 0 ELSE ch[1].queue)

\* The first call failed in its build-result step after a successful queue
\* step; the second call has set a queue change other than 0 from the size
\* the first one observed.
C23_Witness ==
    \E c \in Callers :
        /\ pc[c] \in {"results", "emit"} /\ QueueStepDone
        /\ current = 2 /\ Len(observed) = 2
        /\ upZero = 1 /\ upOne = 0 /\ ch # <<>> /\ ch[1].up = 0
        /\ ch[1].queue = observed[1]
        /\ queueChange = observed[2] - observed[1] /\ queueChange # 0

====
